---- MODULE Spec2Model ----
(***************************************************************************)
(* A model of tsh (src/Solu_tsh.c), a tiny shell with job control.         *)
(*                                                                         *)
(* Two specifications share the job-table operators:                       *)
(*   TableSpec - arbitrary sequences of addjob / deletejob calls on the    *)
(*               job table (the helper routines taken on their own);       *)
(*   Spec      - the shell: the control thread (main's read loop, eval,    *)
(*               builtin_cmd, do_bgfg, waitfg) interleaved with the        *)
(*               SIGCHLD / SIGINT / SIGTSTP handlers and with the child    *)
(*               processes, which exit, get killed or stop on their own.   *)
(*                                                                         *)
(* The command line text of a job (cmdline) is carried nowhere the model   *)
(* looks at and is left out of the job record.                             *)
(***************************************************************************)
EXTENDS Integers, FiniteSets, Sequences, TLC

(* ------------------------------ bounds -------------------------------- *)

\* Number of slots of the job table.  The source sets MAXJOBS to 16
\* (src/Solu_tsh.c:18); the model is parametric in it and is checked with
\* a smaller table so that "table full" and the jid wrap-around are reached.
MAXJOBS == 4

\* fork() is modelled as handing out the pids 1, 2, ... in order; at most
\* MaxPid children are ever forked in a run of Spec.
MaxPid == 5

\* addjob is not called once nextjid has grown past MaxJid (nextjid is
\* recomputed as maxjid+1 by deletejob and can grow without limit).
MaxJid == 6

\* At most MaxChanges times in a run of Spec does a child exit, get killed
\* or stop.
MaxChanges == 2

\* fg / bg are given the arguments 1 .. MaxArg and %1 .. %MaxArg.
MaxArg == 3

\* TableSpec calls addjob / deletejob with these pids (0 is "pid < 1").
TPids == {0, 1, 2}

(* --------------------------- job states ------------------------------- *)

UNDEF == 0
FG == 1
BG == 2
ST == 3

\* Signal numbers of the platform (Linux, <signal.h>).
SIGINT == 2
SIGKILL == 9
SIGSTOP == 19
SIGTSTP == 20

Slots == 1..MAXJOBS

Pids == 1..MaxPid

\* NULL of getjobpid / getjobjid: no slot.
NULL == 0

\* "nothing printed / no signal sent / no call made in this step"
Nil == [k |-> "nil"]

VARIABLES
    jobs,      \* struct job_t jobs[MAXJOBS]: slot -> [pid, jid, state]
    nextjid,   \* int nextjid
    proc,      \* kernel view of each child: pid -> process status
    wsig,      \* pid -> the signal number in the child's wait status:
               \* WTERMSIG of a killed child, WSTOPSIG of a stopped one, else 0
    nforked,   \* number of children forked so far (the last pid handed out)
    nchanges,  \* number of times a child has exited, been killed or stopped
    pending,   \* SIGCHLD is pending for the shell
    blocked,   \* SIGCHLD is in the shell's signal mask (sigprocmask)
    hpc,       \* "idle", or "loop" while sigchld_handler is on the stack
    pc,        \* position of the control thread
    loc,       \* locals of the control thread's current command
    shell,     \* "running", "exited" (exit()), "crashed" (SIGSEGV)
    sent,      \* the kill() call made by the last step, or Nil
    out,       \* the message printed by the last step, or Nil
    call       \* the addjob/deletejob call made by the last step, or Nil

vars == <<jobs, nextjid, proc, wsig, nforked, nchanges, pending, blocked, hpc, pc, loc,
          shell, sent, out, call>>

(* ------------------------- job list helpers --------------------------- *)

EmptyJob == [pid |-> 0, jid |-> 0, state |-> UNDEF]

\* The lowest index of S (the for-loops scan i = 0 .. MAXJOBS-1 in order).
First(S) == CHOOSE i \in S : \A k \in S : i <= k

\* (a clearjob that leaves the jid in the slot)
clearjob_keepsjid(j, i) == [j EXCEPT ![i].pid = 0, ![i].state = UNDEF]

clearjob(j, i) == [j EXCEPT ![i] = EmptyJob]

initjobs == [i \in Slots |-> EmptyJob]

RECURSIVE maxjidFrom(_, _, _)
maxjidFrom(j, i, max) ==
    IF i > MAXJOBS THEN max
    ELSE maxjidFrom(j, i + 1, IF j[i].jid > max THEN j[i].jid ELSE max)

maxjid(j) == maxjidFrom(j, 1, 0)

\* After jobs[i].jid = nextjid++ : the counter wraps to 1 past MAXJOBS.
bumpjid(nj) == IF nj + 1 > MAXJOBS THEN 1 ELSE nj + 1

\* (addjob without its "pid < 1" test)
addjob_nopidtest(j, nj, pid, state) ==
    IF \E i \in Slots : j[i].pid = 0
    THEN LET i == First({s \in Slots : j[s].pid = 0})
         IN [jobs |-> [j EXCEPT ![i] = [pid |-> pid, jid |-> nj,
                                       state |-> state]],
             nextjid |-> IF nj + 1 > MAXJOBS THEN 1 ELSE nj + 1,
             ret |-> 1, full |-> FALSE]
    ELSE [jobs |-> j, nextjid |-> nj, ret |-> 0, full |-> TRUE]

\* (an addjob whose loop goes on after the first empty slot: every empty
\* slot takes the job)
addjob_fillsall(j, nj, pid, state) ==
    IF pid < 1
    THEN [jobs |-> j, nextjid |-> nj, ret |-> 0, full |-> FALSE]
    ELSE IF \E i \in Slots : j[i].pid = 0
         THEN [jobs |-> [i \in Slots |->
                           IF j[i].pid = 0
                           THEN [pid |-> pid, jid |-> nj, state |-> state]
                           ELSE j[i]],
               nextjid |-> bumpjid(nj), ret |-> 1, full |-> FALSE]
         ELSE [jobs |-> j, nextjid |-> nj, ret |-> 0, full |-> TRUE]

\* addjob: the table, the counter, the return value and whether the
\* "Tried to create too many jobs" message was printed.
addjob(j, nj, pid, state) ==
    IF pid < 1
    THEN [jobs |-> j, nextjid |-> nj, ret |-> 0, full |-> FALSE]
    ELSE IF \E i \in Slots : j[i].pid = 0
         THEN LET i == First({s \in Slots : j[s].pid = 0})
              IN [jobs |-> [j EXCEPT ![i] = [pid |-> pid, jid |-> nj,
                                            state |-> state]],
                  nextjid |-> bumpjid(nj), ret |-> 1, full |-> FALSE]
         ELSE [jobs |-> j, nextjid |-> nj, ret |-> 0, full |-> TRUE]

deletejob(j, nj, pid) ==
    IF pid < 1
    THEN [jobs |-> j, nextjid |-> nj, ret |-> 0]
    ELSE IF \E i \in Slots : j[i].pid = pid
         THEN LET i == First({s \in Slots : j[s].pid = pid})
                  cleared == clearjob(j, i)
              IN [jobs |-> cleared, nextjid |-> maxjid(cleared) + 1, ret |-> 1]
         ELSE [jobs |-> j, nextjid |-> nj, ret |-> 0]

fgpid(j) ==
    IF \E i \in Slots : j[i].state = FG
    THEN j[First({s \in Slots : j[s].state = FG})].pid
    ELSE 0

\* getjobpid / getjobjid return a pointer to a slot: here its index, or NULL.
getjobpid(j, pid) ==
    IF pid < 1 THEN NULL
    ELSE IF \E i \in Slots : j[i].pid = pid
         THEN First({s \in Slots : j[s].pid = pid})
         ELSE NULL

getjobjid(j, jid) ==
    IF jid < 1 THEN NULL
    ELSE IF \E i \in Slots : j[i].jid = jid
         THEN First({s \in Slots : j[s].jid = jid})
         ELSE NULL

pid2jid(j, pid) ==
    IF pid < 1 THEN 0
    ELSE IF \E i \in Slots : j[i].pid = pid
         THEN j[First({s \in Slots : j[s].pid = pid})].jid
         ELSE 0

\* The registered jobs: the slots with pid != 0.
Registered(j) == {i \in Slots : j[i].pid # 0}

\* No two registered jobs of table j have the same pid.
UniquePids(j) ==
    \A a, b \in Registered(j) : a # b => j[a].pid # j[b].pid

(* ----------------- TableSpec: addjob / deletejob alone ---------------- *)

\* The locals of the control thread when it is in the read loop.
\* (added is not a variable of the program: it remembers, for the launch
\* in progress, the jid addjob gave the job, 0 when addjob failed.)
NoLoc == [cmd |-> "none", bg |-> FALSE, pid |-> 0, temp |-> NULL,
          newstate |-> UNDEF, cont |-> FALSE, added |-> 0]

Init ==
    /\ jobs = initjobs
    /\ nextjid = 1
    /\ proc = [p \in Pids |-> "none"]
    /\ wsig = [p \in Pids |-> 0]
    /\ nforked = 0
    /\ nchanges = 0
    /\ pending = FALSE
    /\ blocked = FALSE
    /\ hpc = "idle"
    /\ pc = "read"
    /\ loc = NoLoc
    /\ shell = "running"
    /\ sent = Nil
    /\ out = Nil
    /\ call = Nil

TableRest == UNCHANGED <<proc, wsig, nforked, nchanges, pending, blocked, hpc, pc, loc,
                         shell, sent, out>>

\* A call addjob(jobs, pid, state, cmdline) with any pid, 0 included.
TAddjob ==
    \E pid \in TPids, state \in {BG} :
        /\ nextjid <= MaxJid
        /\ LET r == addjob(jobs, nextjid, pid, state)
           IN /\ jobs' = r.jobs
              /\ nextjid' = r.nextjid
              /\ call' = [k |-> "addjob", pid |-> pid, state |-> state,
                          ret |-> r.ret, full |-> r.full]
        /\ TableRest

\* A call deletejob(jobs, pid) with any pid, 0 included.
TDeletejob ==
    \E pid \in TPids :
        /\ LET r == deletejob(jobs, nextjid, pid)
           IN /\ jobs' = r.jobs
              /\ nextjid' = r.nextjid
              /\ call' = [k |-> "deletejob", pid |-> pid, ret |-> r.ret]
        /\ TableRest

\* addjob(jobs, pid, state, cmdline) followed at once by deletejob(jobs, pid).
TAddThenDelete ==
    \E pid \in TPids, state \in {BG} :
        /\ LET a == addjob(jobs, nextjid, pid, state)
               d == deletejob(a.jobs, a.nextjid, pid)
           IN /\ jobs' = d.jobs
              /\ nextjid' = d.nextjid
              /\ call' = [k |-> "addthendelete", pid |-> pid,
                          added |-> a.ret, deleted |-> d.ret]
        /\ TableRest

TableNext == TAddjob \/ TDeletejob \/ TAddThenDelete

TableSpec == Init /\ [][TableNext]_vars

(* ------------------------- Spec: the shell ---------------------------- *)

\* Process statuses as the kernel sees a child:
\*   "none"     not forked yet, or already reaped
\*   "run"      running
\*   "stopnew"  stopped, the stop not yet reported by waitpid(WUNTRACED)
\*   "stopped"  stopped, the stop already reported
\*   "zexit"    zombie, exited normally (exec failure included: exit(1))
\*   "zsig"     zombie, killed by a signal
Waitable(p) == proc[p] \in {"stopnew", "zexit", "zsig"}

\* The control thread runs only while the shell lives and no handler is on
\* its stack.
Ctl == shell = "running" /\ hpc = "idle"

Quiet == sent' = Nil /\ out' = Nil /\ call' = Nil

(* what printf writes *)

\* The conversion %d.
Dec(n) == ToString(n)

\* printf("%d : No such process\n ", result);
NoSuchProcessMsg(result) == Dec(result) \o " : No such process\n "

\* printf("%%%d : No such Job\n ", result);
NoSuchJobMsg(result) == "%" \o Dec(result) \o " : No such Job\n "

\* printf("Job [%d] (%d) terminated by signal 2", pid2jid(pid), pid);
TerminatedMsg(jid, pid) ==
    "Job [" \o Dec(jid) \o "] (" \o Dec(pid) \o ") terminated by signal 2"

\* printf("Job [%d] (%d) stopped by signal 20\n", pid2jid(pid), pid);
StoppedMsg(jid, pid) ==
    "Job [" \o Dec(jid) \o "] (" \o Dec(pid) \o ") stopped by signal 20\n"

(* eval: an external command, lines 181-223 *)

\* (an eval that goes on to fork without blocking SIGCHLD)
EvalBlock_noblock ==
    \E bg \in BOOLEAN :
        /\ Ctl /\ pc = "read"
        /\ nforked < MaxPid /\ nextjid <= MaxJid
        /\ blocked' = blocked
        /\ loc' = [NoLoc EXCEPT !.cmd = "launch", !.bg = bg]
        /\ pc' = "eval_fork"
        /\ Quiet
        /\ UNCHANGED <<nchanges, jobs, nextjid, proc, wsig, nforked, pending, hpc, shell>>

\* sigprocmask(SIG_BLOCK, {SIGCHLD}) for a command line with or without '&'.
EvalBlock ==
    \E bg \in BOOLEAN :
        /\ Ctl /\ pc = "read"
        /\ nforked < MaxPid /\ nextjid <= MaxJid
        /\ blocked' = TRUE
        /\ loc' = [NoLoc EXCEPT !.cmd = "launch", !.bg = bg]
        /\ pc' = "eval_fork"
        /\ Quiet
        /\ UNCHANGED <<nchanges, jobs, nextjid, proc, wsig, nforked, pending, hpc, shell>>

\* pid = fork(): the child gets the next pid and runs.
EvalFork ==
    /\ Ctl /\ pc = "eval_fork"
    /\ nforked' = nforked + 1
    /\ proc' = [proc EXCEPT ![nforked + 1] = "run"]
    /\ wsig' = wsig
    /\ loc' = [loc EXCEPT !.pid = nforked + 1]
    /\ pc' = "eval_addjob"
    /\ Quiet
    /\ UNCHANGED <<nchanges, jobs, nextjid, pending, blocked, hpc, shell>>

\* addjob(jobs, pid, bg ? BG : FG, cmdline); the return value is ignored.
EvalAddjob ==
    /\ Ctl /\ pc = "eval_addjob"
    /\ LET r == addjob(jobs, nextjid, loc.pid, IF loc.bg THEN BG ELSE FG)
       IN /\ jobs' = r.jobs
          /\ nextjid' = r.nextjid
          /\ out' = IF r.full THEN [k |-> "toomany"] ELSE Nil
          /\ call' = [k |-> "addjob", pid |-> loc.pid,
                      state |-> IF loc.bg THEN BG ELSE FG,
                      ret |-> r.ret, full |-> r.full]
          /\ loc' = [loc EXCEPT !.added = IF r.ret = 1 THEN nextjid ELSE 0]
    /\ sent' = Nil
    /\ pc' = "eval_unblock"
    /\ UNCHANGED <<nchanges, proc, wsig, nforked, pending, blocked, hpc, shell>>

\* sigprocmask(SIG_UNBLOCK, {SIGCHLD})
EvalUnblock ==
    /\ Ctl /\ pc = "eval_unblock"
    /\ blocked' = FALSE
    /\ pc' = IF loc.bg THEN "eval_print" ELSE "waitfg"
    /\ Quiet
    /\ UNCHANGED <<nchanges, jobs, nextjid, proc, wsig, nforked, pending, hpc, loc, shell>>

\* printf("[%d] (%d) %s", pid2jid(pid), pid, cmdline)
EvalPrint ==
    /\ Ctl /\ pc = "eval_print"
    /\ out' = [k |-> "bgline", jid |-> pid2jid(jobs, loc.pid), pid |-> loc.pid]
    /\ sent' = Nil /\ call' = Nil
    /\ pc' = "read"
    /\ loc' = NoLoc
    /\ UNCHANGED <<nchanges, jobs, nextjid, proc, wsig, nforked, pending, blocked, hpc, shell>>

(* waitfg, lines 422-430 *)

\* fgprocess = getjobpid(jobs, pid); if (fgprocess == NULL) return;
WaitfgEnter ==
    /\ Ctl /\ pc = "waitfg"
    /\ LET t == getjobpid(jobs, loc.pid)
       IN IF t = NULL
          THEN pc' = "read" /\ loc' = NoLoc
          ELSE pc' = "waitfg_loop" /\ loc' = [loc EXCEPT !.temp = t]
    /\ Quiet
    /\ UNCHANGED <<nchanges, jobs, nextjid, proc, wsig, nforked, pending, blocked, hpc, shell>>

\* (a waitfg that does not look at the state)
WaitfgReturn_nowait ==
    /\ Ctl /\ pc = "waitfg_loop"
    /\ pc' = "read"
    /\ loc' = NoLoc
    /\ Quiet
    /\ UNCHANGED <<nchanges, jobs, nextjid, proc, wsig, nforked, pending, blocked, hpc, shell>>

\* while (fgprocess->state == 1) sleep(1);  -- the loop is left once the
\* slot's state is not FG; an iteration that sleeps changes nothing.
WaitfgReturn ==
    /\ Ctl /\ pc = "waitfg_loop"
    /\ jobs[loc.temp].state # FG
    /\ pc' = "read"
    /\ loc' = NoLoc
    /\ Quiet
    /\ UNCHANGED <<nchanges, jobs, nextjid, proc, wsig, nforked, pending, blocked, hpc, shell>>

(* builtin_cmd: quit, lines 291-307 *)

\* (a quit that exits without looking at the job table)
Quit_ignoresjobs ==
    /\ Ctl /\ pc = "read"
    /\ out' = Nil
    /\ shell' = "exited"
    /\ sent' = Nil /\ call' = [k |-> "quit"]
    /\ UNCHANGED <<nchanges, jobs, nextjid, proc, wsig, nforked, pending, blocked, hpc, pc, loc>>

\* quit with argv[1] == NULL: "there are stopped jobs" and return 1 when a
\* slot has state 3, exit(0) otherwise.
Quit ==
    /\ Ctl /\ pc = "read"
    /\ IF \E i \in Slots : jobs[i].state = 3
       THEN /\ out' = [k |-> "stoppedjobs"]
            /\ shell' = shell
       ELSE /\ out' = Nil
            /\ shell' = "exited"
    /\ sent' = Nil /\ call' = [k |-> "quit"]
    /\ UNCHANGED <<nchanges, jobs, nextjid, proc, wsig, nforked, pending, blocked, hpc, pc, loc>>

(* do_bgfg, lines 324-417, for an argument that passes the digit check *)

\* The arguments fg / bg are given: a pid or a %jid, known or unknown.
Args == 1..MaxArg

\* temp = getjobpid(jobs, result); temp1 = getjobjid(jobs, result); when
\* the one the command uses is NULL, the "No such process" / "No such Job"
\* answer; otherwise the pid the command goes on with: result itself, or
\* result1 = temp1->pid.
BgfgLookup ==
    \E cmd \in {"fg", "bg"}, byjid \in BOOLEAN, arg \in Args :
        /\ Ctl /\ pc = "read"
        /\ LET t == IF byjid THEN getjobjid(jobs, arg) ELSE getjobpid(jobs, arg)
           IN IF t = NULL
              THEN /\ out' = [k |-> IF byjid THEN "nosuchjob" ELSE "nosuchprocess",
                              arg |-> arg,
                              text |-> IF byjid THEN NoSuchJobMsg(arg)
                                       ELSE NoSuchProcessMsg(arg)]
                   /\ pc' = "read"
                   /\ loc' = NoLoc
              ELSE /\ out' = IF byjid THEN Nil
                             ELSE [k |-> "jobdebug", jid |-> pid2jid(jobs, arg),
                                   pid |-> arg, state |-> jobs[t].state]
                   /\ pc' = IF cmd = "bg" THEN "bgfg_t1" ELSE "bgfg_t2"
                   /\ loc' = [NoLoc EXCEPT !.cmd = cmd, !.temp = t,
                                 !.pid = IF byjid THEN jobs[t].pid ELSE arg]
        /\ sent' = Nil /\ call' = Nil
        /\ UNCHANGED <<nchanges, jobs, nextjid, proc, wsig, nforked, pending, blocked, hpc, shell>>

\* bg:  if (temp->state == ST && strcmp(argv[0], "bg") == 0)
\* (for bg the two later tests fail on their strcmp; for fg this one does)
BgfgTest1 ==
    /\ Ctl /\ pc = "bgfg_t1"
    /\ IF jobs[loc.temp].state = ST
       THEN /\ pc' = "bgfg_write"
            /\ loc' = [loc EXCEPT !.newstate = BG, !.cont = TRUE]
       ELSE pc' = "read" /\ loc' = NoLoc
    /\ Quiet
    /\ UNCHANGED <<nchanges, jobs, nextjid, proc, wsig, nforked, pending, blocked, hpc, shell>>

\* fg:  else if (temp->state == ST && strcmp(argv[0], "fg") == 0)
BgfgTest2 ==
    /\ Ctl /\ pc = "bgfg_t2"
    /\ IF jobs[loc.temp].state = ST
       THEN /\ pc' = "bgfg_write"
            /\ loc' = [loc EXCEPT !.newstate = FG, !.cont = TRUE]
       ELSE pc' = "bgfg_t3" /\ loc' = loc
    /\ Quiet
    /\ UNCHANGED <<nchanges, jobs, nextjid, proc, wsig, nforked, pending, blocked, hpc, shell>>

\* fg:  else if (temp->state == BG && strcmp(argv[0], "fg") == 0)
BgfgTest3 ==
    /\ Ctl /\ pc = "bgfg_t3"
    /\ IF jobs[loc.temp].state = BG
       THEN /\ pc' = "bgfg_write"
            /\ loc' = [loc EXCEPT !.newstate = FG, !.cont = FALSE]
       ELSE pc' = "read" /\ loc' = NoLoc
    /\ Quiet
    /\ UNCHANGED <<nchanges, jobs, nextjid, proc, wsig, nforked, pending, blocked, hpc, shell>>

\* temp->state = BG;  or  temp->state = FG;
BgfgWrite ==
    /\ Ctl /\ pc = "bgfg_write"
    /\ jobs' = [jobs EXCEPT ![loc.temp].state = loc.newstate]
    /\ pc' = IF loc.cont THEN "bgfg_kill" ELSE "waitfg"
    /\ Quiet
    /\ UNCHANGED <<nchanges, nextjid, proc, wsig, nforked, pending, blocked, hpc, loc, shell>>

\* kill(-result, SIGCONT): a stopped child of that group runs again, and the
\* kernel tells the parent (SIGCHLD) that a child has continued.
BgfgKill ==
    /\ Ctl /\ pc = "bgfg_kill"
    /\ sent' = [k |-> "kill", to |-> 0 - loc.pid, sig |-> "SIGCONT"]
    /\ IF loc.pid \in Pids /\ proc[loc.pid] \in {"stopnew", "stopped"}
       THEN /\ proc' = [proc EXCEPT ![loc.pid] = "run"]
            /\ wsig' = [wsig EXCEPT ![loc.pid] = 0]
            /\ pending' = TRUE
       ELSE UNCHANGED <<proc, wsig, pending>>
    /\ IF loc.cmd = "fg"
       THEN pc' = "waitfg" /\ loc' = loc
       ELSE pc' = "read" /\ loc' = NoLoc
    /\ out' = Nil /\ call' = Nil
    /\ UNCHANGED <<nchanges, jobs, nextjid, nforked, blocked, hpc, shell>>

(* the children *)

\* Signals that kill a child: SIGINT (ctrl-c, forwarded by the shell) and
\* SIGKILL (sent by anyone).
TermSigs == {SIGINT, SIGKILL}

\* Signals that stop a child: SIGTSTP (ctrl-z, forwarded by the shell) and
\* SIGSTOP (sent by anyone).
StopSigs == {SIGTSTP, SIGSTOP}

\* The signal numbers a child's wait status can carry after change s.
StatusSigs(s) ==
    IF s = "zsig" THEN TermSigs ELSE IF s = "stopnew" THEN StopSigs ELSE {0}

\* A running child exits, is killed by a signal, or stops; a stopped child
\* can only be killed (SIGKILL).  The kernel raises SIGCHLD for the shell.
ChildChanges ==
    \E p \in Pids, s \in {"zexit", "zsig", "stopnew"} :
      \E n \in StatusSigs(s) :
        /\ shell = "running"
        /\ \/ proc[p] = "run"
           \/ proc[p] \in {"stopnew", "stopped"} /\ s = "zsig" /\ n = SIGKILL
        /\ nchanges < MaxChanges
        /\ nchanges' = nchanges + 1
        /\ proc' = [proc EXCEPT ![p] = s]
        /\ wsig' = [wsig EXCEPT ![p] = n]
        /\ pending' = TRUE
        /\ Quiet
        /\ UNCHANGED <<jobs, nextjid, nforked, blocked, hpc, pc, loc, shell>>

(* sigchld_handler, lines 443-475 *)

\* A pending, unblocked SIGCHLD is delivered: the handler starts.
SigchldEnter ==
    /\ Ctl
    /\ pending /\ ~blocked
    /\ pending' = FALSE
    /\ hpc' = "loop"
    /\ Quiet
    /\ UNCHANGED <<nchanges, jobs, nextjid, proc, wsig, nforked, blocked, pc, loc, shell>>

\* The table after the handler's body for a terminated child with a job:
\* temp->state = UNDEF; deletejob(jobs, pid);
ReapTerminated(j, nj, p) ==
    deletejob([j EXCEPT ![getjobpid(j, p)].state = UNDEF], nj, p)

\* (a handler that deletes the job of a stopped child too)
ReapStopped_deletes(j, p) == [j EXCEPT ![getjobpid(j, p)] = EmptyJob]

\* temp->state = ST;
ReapStopped(j, p) == [j EXCEPT ![getjobpid(j, p)].state = ST]

\* One iteration of while ((pid = waitpid(-1, &stat, WNOHANG|WUNTRACED)) > 0).
\* getjobpid returns NULL for a child that has no job; the store through
\* it is undefined: the shell dies of SIGSEGV, or the store hits nothing.
SigchldReap ==
    \E p \in Pids :
        /\ shell = "running" /\ hpc = "loop"
        /\ Waitable(p)
        /\ proc' = [proc EXCEPT ![p] = IF proc[p] = "stopnew" THEN "stopped"
                                       ELSE "none"]
        /\ wsig' = [wsig EXCEPT ![p] = 0]
        /\ out' = IF proc[p] = "zsig"
                     THEN [k |-> "terminated", jid |-> pid2jid(jobs, p),
                           pid |-> p, sig |-> 2,
                           text |-> TerminatedMsg(pid2jid(jobs, p), p)]
                  ELSE IF proc[p] = "stopnew"
                     THEN [k |-> "stopped", jid |-> pid2jid(jobs, p),
                           pid |-> p, sig |-> 20,
                           text |-> StoppedMsg(pid2jid(jobs, p), p)]
                  ELSE Nil
        /\ sent' = Nil
        /\ call' = [k |-> "reap", pid |-> p, what |-> proc[p]]
        /\ IF getjobpid(jobs, p) = NULL
           THEN /\ \E outcome \in {"crashed", "running"} : shell' = outcome
                /\ UNCHANGED <<jobs, nextjid>>
           ELSE /\ shell' = shell
                /\ IF proc[p] = "stopnew"
                   THEN /\ jobs' = ReapStopped(jobs, p)
                        /\ nextjid' = nextjid
                   ELSE LET r == ReapTerminated(jobs, nextjid, p)
                        IN jobs' = r.jobs /\ nextjid' = r.nextjid
        /\ UNCHANGED <<nchanges, nforked, pending, blocked, hpc, pc, loc>>

\* waitpid finds no child to report: the handler returns.
SigchldReturn ==
    /\ shell = "running" /\ hpc = "loop"
    /\ \A p \in Pids : ~Waitable(p)
    /\ hpc' = "idle"
    /\ Quiet
    /\ UNCHANGED <<nchanges, jobs, nextjid, proc, wsig, nforked, pending, blocked, pc, loc, shell>>

(* sigint_handler, lines 482-489, and sigtstp_handler, lines 496-503 *)

\* if ((pid = fgpid(jobs)) != 0) kill(-pid, sig);
Forward(sig) ==
    /\ shell = "running"
    /\ sent' = IF fgpid(jobs) # 0
               THEN [k |-> "kill", to |-> 0 - fgpid(jobs), sig |-> sig]
               ELSE Nil
    /\ out' = Nil
    /\ call' = [k |-> "handler", sig |-> sig]
    /\ UNCHANGED <<nchanges, jobs, nextjid, proc, wsig, nforked, pending, blocked, hpc, pc,
                   loc, shell>>

SigintHandler == Forward("SIGINT")

SigtstpHandler == Forward("SIGTSTP")

Next ==
    \/ EvalBlock \/ EvalFork \/ EvalAddjob \/ EvalUnblock \/ EvalPrint
    \/ WaitfgEnter \/ WaitfgReturn
    \/ Quit
    \/ BgfgLookup \/ BgfgTest1 \/ BgfgTest2 \/ BgfgTest3
    \/ BgfgWrite \/ BgfgKill
    \/ ChildChanges
    \/ SigchldEnter \/ SigchldReap \/ SigchldReturn
    \/ SigintHandler \/ SigtstpHandler

Spec == Init /\ [][Next]_vars

\* The scheduling the code relies on: a pending, unblocked SIGCHLD is
\* delivered, the handler's loop runs to its end, the control thread goes
\* on from fork() to the sigprocmask that unblocks SIGCHLD, and waitfg
\* keeps polling (sleep(1) returns) and returns once its test fails.
FairSpec ==
    /\ Spec
    /\ WF_vars(SigchldEnter) /\ WF_vars(SigchldReap) /\ WF_vars(SigchldReturn)
    /\ WF_vars(EvalFork) /\ WF_vars(EvalAddjob) /\ WF_vars(EvalUnblock)
    /\ WF_vars(WaitfgEnter) /\ WF_vars(WaitfgReturn)

(* ------------------------------ claims -------------------------------- *)

\* C1: in every reachable state of the shell at most one slot of the job
\* table has state FG.
C1_AtMostOneForeground ==
    Cardinality({i \in Slots : jobs[i].state = FG}) <= 1

\* C2: after any sequence of addjob and deletejob calls no two registered
\* jobs (slots with pid != 0) have the same jid.
C2_UniqueJids ==
    \A i \in Registered(jobs), k \in Registered(jobs) :
        i # k => jobs[i].jid # jobs[k].jid

\* The slot a successful addjob fills: the first empty one.
AddedSlot == First({s \in Slots : jobs[s].pid = 0})

\* C3: the jid addjob gives a new job is 1 + the largest jid present just
\* before the add, or 1 when that exceeds the capacity MAXJOBS; so it never
\* exceeds MAXJOBS.
C3_JidIsMaxPlusOne ==
    [][(call'.k = "addjob" /\ call'.ret = 1 /\ jobs' # jobs)
        => /\ jobs'[AddedSlot].jid =
                  (IF maxjid(jobs) + 1 > MAXJOBS THEN 1 ELSE maxjid(jobs) + 1)
           /\ jobs'[AddedSlot].jid <= MAXJOBS]_vars

\* C4: a launch that finds the table full reports it and goes on to the
\* read loop; and when the handler later reaps that untracked child, the
\* shell is still running and the table is as it was.
C4_FullTableShellSurvives ==
    [][/\ (pc = "eval_addjob" /\ call'.k = "addjob" /\ call'.full)
            => (out' = [k |-> "toomany"] /\ shell' = "running" /\ jobs' = jobs)
       /\ (hpc = "loop" /\ call'.k = "reap" /\ proc' # proc
              /\ getjobpid(jobs, call'.pid) = NULL)
            => (shell' = "running" /\ jobs' = jobs /\ nextjid' = nextjid)]_vars

\* fg has found its job Stopped (the test at line 368 / 397 succeeded).
FgOnStopped == loc.cmd = "fg" /\ loc.cont

\* C5: fg on a Stopped job sets that job's state to FG, sends SIGCONT to
\* the job's process group (-pid), and comes back to the read loop only
\* when that job has stopped again or has been reaped.
C5_FgOnStopped ==
    [][/\ (pc = "bgfg_t2" /\ jobs[loc.temp].state = ST /\ pc' # pc)
            => (pc' = "bgfg_write" /\ loc'.cmd = "fg" /\ loc'.cont)
       /\ (pc = "bgfg_write" /\ FgOnStopped)
            => /\ jobs[loc.temp].pid = loc.pid => jobs[loc.temp].state = ST
               /\ (pc' # pc =>
                      /\ jobs' = [jobs EXCEPT ![loc.temp].state = FG]
                      /\ pc' = "bgfg_kill")
       /\ (pc = "bgfg_kill" /\ FgOnStopped /\ pc' # pc)
            => /\ sent' = [k |-> "kill", to |-> 0 - loc.pid, sig |-> "SIGCONT"]
               /\ jobs' = jobs
               /\ pc' = "waitfg"
       /\ (pc \in {"waitfg", "waitfg_loop"} /\ FgOnStopped /\ pc' # pc)
            => /\ pc' \in {"waitfg_loop", "read"}
               /\ pc' = "read" =>
                     \/ getjobpid(jobs', loc.pid) = NULL
                     \/ jobs'[getjobpid(jobs', loc.pid)].state = ST]_vars

\* fg %jid on a Stopped job is about to return because the job, continued,
\* has stopped again.
C5_Witness ==
    /\ pc = "waitfg_loop" /\ FgOnStopped
    /\ jobs[loc.temp].pid = loc.pid
    /\ jobs[loc.temp].state = ST

\* C6: when sigint_handler / sigtstp_handler runs while a registered job is
\* in state FG, it sends the signal to that job's process group; when no
\* registered job is FG it sends nothing; the table is unchanged.
C6_ForwardToForeground ==
    [][(call'.k = "handler" /\ call' # call)
        => /\ jobs' = jobs /\ nextjid' = nextjid
           /\ IF \E i \in Registered(jobs) : jobs[i].state = FG
              THEN \E i \in Registered(jobs) :
                      /\ jobs[i].state = FG
                      /\ sent' = [k |-> "kill", to |-> 0 - jobs[i].pid,
                                  sig |-> call'.sig]
              ELSE sent' = Nil]_vars

\* C7: reaping a child that has a job: terminated (exit or signal) - the
\* slot is cleared and nextjid is the largest remaining jid + 1; stopped -
\* the slot keeps its pid and jid and has state ST; no other slot changes.
C7_ReapUpdatesOnlyThatJob ==
    [][(hpc = "loop" /\ call'.k = "reap" /\ proc' # proc
          /\ getjobpid(jobs, call'.pid) # NULL)
        => LET t == getjobpid(jobs, call'.pid)
           IN /\ \A i \in Slots \ {t} : jobs'[i] = jobs[i]
              /\ IF call'.what = "stopnew"
                 THEN /\ jobs'[t] = [jobs[t] EXCEPT !.state = ST]
                      /\ nextjid' = nextjid
                 ELSE /\ jobs'[t] = EmptyJob
                      /\ nextjid' = maxjid(jobs') + 1]_vars

\* The handler has just reaped a terminated child that had a job, while
\* another job stays registered.
C7_Witness ==
    /\ call.k = "reap" /\ call.what = "zsig"
    /\ out.k = "terminated" /\ out.jid # 0
    /\ getjobpid(jobs, call.pid) = NULL
    /\ Registered(jobs) # {}
    /\ nextjid = maxjid(jobs) + 1

\* C8: a background launch whose job was registered prints the jid addjob
\* gave the job and the child's pid, then is back in the read loop.
C8_BgLinePrintsAssignedJid ==
    [][(pc = "eval_print" /\ out'.k = "bgline" /\ loc.added # 0)
        => /\ out'.jid = loc.added
           /\ out'.pid = loc.pid
           /\ pc' = "read"]_vars

\* C9: a registered job whose process has terminated is eventually removed
\* from the table.  In the form a finite run refutes: the shell never stops
\* for good, other than by exit(), while such a job is still registered
\* (once it has stopped no handler runs again and the entry stays).
C9_TerminatedJobRemoved ==
    \A p \in Pids :
        (proc[p] \in {"zexit", "zsig"} /\ getjobpid(jobs, p) # NULL)
            => shell \in {"running", "exited"}

\* C10: addjob with pid < 1, or with no empty slot, returns 0 and changes
\* neither a slot nor nextjid; the table never holds more than MAXJOBS jobs.
C10_FailedAddjobChangesNothing ==
    /\ [][(call'.k = "addjob" /\ call' # call
             /\ (call'.pid < 1 \/ \A i \in Slots : jobs[i].pid # 0))
           => (call'.ret = 0 /\ jobs' = jobs /\ nextjid' = nextjid)]_vars
    /\ [](Cardinality(Registered(jobs)) <= MAXJOBS)

\* addjob has just failed on a full table.
C10_Witness ==
    /\ call.k = "addjob" /\ call.full /\ call.ret = 0
    /\ \A i \in Slots : jobs[i].pid # 0

\* C11: from any table with an empty slot, addjob(pid, ...) with a pid >= 1
\* that is not in the table, followed at once by deletejob(pid), leaves
\* every slot as it was before the add, and nextjid one more than the
\* largest jid of the jobs that remain.
C11_AddThenDeleteRestores ==
    [][(/\ call'.k = "addthendelete"
        /\ call'.pid >= 1
        /\ getjobpid(jobs, call'.pid) = NULL
        /\ \E i \in Slots : jobs[i].pid = 0)
            => (/\ call'.added = 1 /\ call'.deleted = 1
                /\ \A i \in Slots : jobs'[i] = jobs[i]
                /\ nextjid' = 1 + maxjid(jobs'))]_vars

\* An add-then-delete of an absent pid has just run on a table that holds
\* other jobs and whose counter had moved on.
C11_Witness ==
    /\ call.k = "addthendelete" /\ call.added = 1 /\ call.deleted = 1
    /\ getjobpid(jobs, call.pid) = NULL
    /\ Registered(jobs) # {}
    /\ \E i \in Slots : jobs[i].pid = 0

\* C12 (as stated): whatever sequence of addjob / deletejob calls is made,
\* the table never holds two entries with the same pid.
C12_UniquePidsAlways == UniquePids(jobs)

\* C12 (amended): a table without two entries of the same pid stays so
\* under every deletejob call and under every addjob call whose pid the
\* table does not hold yet (the shell passes the pid fork just returned).
C12_UniquePidsIfAddedPidAbsent ==
    [][(/\ UniquePids(jobs)
        /\ call'.k \in {"addjob", "deletejob", "addthendelete"}
        /\ (call'.k \in {"addjob", "addthendelete"}
               => getjobpid(jobs, call'.pid) = NULL))
            => UniquePids(jobs')]_vars

\* An addjob has just put a second job into a table and the two pids
\* differ.
C12_Witness ==
    /\ call.k = "addjob" /\ call.ret = 1
    /\ Cardinality(Registered(jobs)) = 2
    /\ UniquePids(jobs)

\* C13: quit without arguments, typed while a job is Stopped, does not end
\* the shell and leaves the job table as it was; typed while no job is
\* Stopped it ends the shell.
C13_QuitRefusedWhileStopped ==
    [][call'.k = "quit"
          => (/\ jobs' = jobs /\ nextjid' = nextjid
              /\ IF \E i \in Registered(jobs) : jobs[i].state = ST
                 THEN shell' = "running" /\ out' = [k |-> "stoppedjobs"]
                 ELSE shell' = "exited")]_vars

\* quit has just been refused: a job is Stopped and the shell still runs.
C13_Witness ==
    /\ call.k = "quit" /\ out.k = "stoppedjobs"
    /\ shell = "running"
    /\ \E i \in Registered(jobs) : jobs[i].state = ST

\* C14: bg or fg with a bare integer pid that no job has writes exactly
\* "<pid>: No such process" (with or without the newline that ends the
\* line), changes no slot of the table and sends no signal.
C14_NoSuchProcess ==
    [][out'.k = "nosuchprocess"
          => (/\ out'.text \in {Dec(out'.arg) \o ": No such process",
                                Dec(out'.arg) \o ": No such process\n"}
              /\ jobs' = jobs /\ nextjid' = nextjid
              /\ sent' = Nil)]_vars

\* C15: when the handler reaps a child with a job that signal n killed or
\* stopped, the message names the job's jid, its pid and that signal n
\* (with or without the newline that ends the line).
C15_MessageNamesTheSignal ==
    [][(/\ call'.k = "reap" /\ call'.what \in {"zsig", "stopnew"}
        /\ getjobpid(jobs, call'.pid) # NULL)
            => LET head == "Job [" \o Dec(pid2jid(jobs, call'.pid)) \o "] ("
                               \o Dec(call'.pid) \o ") "
                   verb == IF call'.what = "zsig" THEN "terminated"
                           ELSE "stopped"
                   line == head \o verb \o " by signal "
                               \o Dec(wsig[call'.pid])
               IN out'.text \in {line, line \o "\n"}]_vars

\* The step changes registered job i in a way the job state machine
\* lists: removal when the handler reaps its termination, FG -> ST when
\* the handler reaps its stop, ST -> FG and BG -> FG by the store of fg,
\* ST -> BG by the store of bg; with bgstop, BG -> ST when the handler
\* reaps its stop as well.
ListedChange(i, bgstop) ==
    LET old == jobs[i]
        new == jobs'[i]
        reaped == call'.k = "reap" /\ call'.pid = old.pid /\ hpc = "loop"
        store(cmd) == /\ hpc = "idle" /\ pc = "bgfg_write" /\ pc' # pc
                      /\ loc.temp = i /\ loc.cmd = cmd
    IN \/ new = EmptyJob /\ reaped /\ call'.what \in {"zexit", "zsig"}
       \/ /\ new.pid = old.pid /\ new.jid = old.jid
          /\ \/ old.state = FG /\ new.state = ST
                   /\ reaped /\ call'.what = "stopnew"
             \/ bgstop /\ old.state = BG /\ new.state = ST
                   /\ reaped /\ call'.what = "stopnew"
             \/ old.state = ST /\ new.state = FG /\ store("fg")
             \/ old.state = BG /\ new.state = FG /\ store("fg")
             \/ old.state = ST /\ new.state = BG /\ store("bg")

C17_ControlWritesUnderBlock ==
    [][(/\ hpc = "idle" /\ pc \in {"eval_addjob", "bgfg_write"}
        /\ pc' # pc)
            => blocked]_vars

\* C18: in every reachable state a slot with pid = 0 has jid = 0 and state
\* UNDEF, and a slot with pid # 0 has state FG, BG or ST.
C18_SlotsWellFormed ==
    \A i \in Slots :
        /\ jobs[i].pid = 0 => (jobs[i].jid = 0 /\ jobs[i].state = UNDEF)
        /\ jobs[i].pid # 0 => jobs[i].state \in {FG, BG, ST}

\* C19: in eval SIGCHLD is blocked before fork and stays blocked until
\* addjob has returned: from the fork to the registration of the child no
\* handler runs, and the child is neither reaped nor reported as stopped.
C19_LaunchWindowProtected ==
    /\ pc \in {"eval_fork", "eval_addjob", "eval_unblock"}
          => (blocked /\ hpc = "idle")
    /\ pc = "eval_addjob"
          => proc[loc.pid] \in {"run", "stopnew", "zexit", "zsig"}

\* The child has terminated after the fork and before addjob: SIGCHLD is
\* pending and held back by the mask.
C19_Witness ==
    /\ pc = "eval_addjob"
    /\ proc[loc.pid] \in {"zexit", "zsig"}
    /\ pending /\ blocked /\ hpc = "idle"

\* C20: waitfg(pid) returns only in a state where the table has no entry
\* for pid or the entry's state is not FG; while the entry of pid is there
\* with state FG the control thread stays in waitfg.
C20_WaitfgReturnsOnlyWhenNotFg ==
    [][/\ (/\ hpc = "idle" /\ pc \in {"waitfg", "waitfg_loop"}
           /\ pc' \notin {"waitfg", "waitfg_loop"})
              => \/ getjobpid(jobs', loc.pid) = NULL
                 \/ jobs'[getjobpid(jobs', loc.pid)].state # FG
       /\ (/\ pc \in {"waitfg", "waitfg_loop"}
           /\ getjobpid(jobs, loc.pid) # NULL
           /\ jobs[getjobpid(jobs, loc.pid)].state = FG)
              => pc' \in {"waitfg", "waitfg_loop"}]_vars

\* waitfg polls the job of a launched foreground command that the handler
\* has marked Stopped: the loop is about to end.
C20_Witness ==
    /\ pc = "waitfg_loop" /\ loc.cmd = "launch"
    /\ jobs[loc.temp].pid = loc.pid
    /\ jobs[loc.temp].state = ST
    /\ hpc = "idle"

\* C22: whenever the control thread is in the read loop of main, waiting
\* for the next command line (not inside waitfg), no slot of the job table
\* has state FG.
C22_NoForegroundAtPrompt ==
    (shell = "running" /\ pc = "read")
        => \A i \in Slots : jobs[i].state # FG

\* C21: when the job waitfg waits for has terminated or stopped, and the
\* SIGCHLD this raises is delivered and handled, waitfg returns and the
\* control thread is back in the read loop.
C21_WaitfgEventuallyReturns ==
    (/\ shell = "running" /\ pc \in {"waitfg", "waitfg_loop"}
     /\ proc[loc.pid] # "run")
        ~> (pc = "read")

====
